---- MODULE Spec2Model ----
(***************************************************************************)
(* A model of coqui-server's src/app.py: the markdown stripping loop       *)
(* (remove_markdown_styles), the text cleaner (clean_text_for_tts) and the *)
(* POST /tts handler with its temporary files.                             *)
(*                                                                         *)
(* A Python str is a sequence of one-character strings; "deg" stands for   *)
(* the degree sign and "emoji" for any one emoji that demoji removes.      *)
(***************************************************************************)
EXTENDS Integers, Sequences, FiniteSets, TLC

VARIABLES
    \* remove_markdown_styles, one loop iteration per step
    md_text,      \* the argument
    message,      \* the local `message`
    style,        \* 0 = not called; index into STYLES of the running for-loop; 3 = returned
    match,        \* the local `match`: the span re.search found, or None
    iters,        \* <<bold iterations, italic iterations>> of the while body
    prev,         \* `message` and `match` as the last while-body iteration found them
    \* clean_text_for_tts applied once and then to its own output
    cl_text, cl_pc, cl_out, cl_out2,
    \* POST /tts, one handler run per request
    req,          \* the form fields of each request
    pc,           \* where each handler run stands
    fs,           \* the temporary directory: the file at each name
    wav_path,     \* the local `wav_path` of each run
    flac_path,    \* the local `flac_path` of each run
    content,      \* the local `content` of each run
    result,       \* the response of each run, or the failure it propagated
    log,          \* the calls each run made, in order
    touched       \* the creators of the files each run read or removed

md_vars == <<md_text, message, style, match, iters, prev>>
cl_vars == <<cl_text, cl_pc, cl_out, cl_out2>>
tts_vars == <<req, pc, fs, wav_path, flac_path, content, result, log, touched>>
vars == <<md_vars, cl_vars, tts_vars>>

\* ------------------------------------------------------------- bounds
MaxMdLen == 7
MaxCleanLen == 4
MaxLinesLen == 6
NumPaths == 4

MdAlphabet == {"a", "*", "\n"}
\* every character clean_text_for_tts treats specially, and a plain letter
CleanAlphabet == {"a", " ", "\n", "\r", "*", "%", "+", "deg", "F", "emoji"}
\* the characters that make and empty lines, for longer texts
LinesAlphabet == {"a", "\n", "*", "emoji"}

\* the strings of n characters of A, and those of at most n
RECURSIVE StringsOfLen(_, _)
StringsOfLen(A, n) ==
    IF n = 0 THEN {<<>>}
    ELSE {Append(s, c) : s \in StringsOfLen(A, n - 1), c \in A}

StringsUpTo(A, n) == UNION {StringsOfLen(A, k) : k \in 0..n}

MdInputs == StringsUpTo(MdAlphabet, MaxMdLen)
\* texts of up to n characters, and texts of lines of up to m characters
CleanInputs(n, m) == StringsUpTo(CleanAlphabet, n) \cup StringsUpTo(LinesAlphabet, m)

\* ------------------------------------------------------------- str helpers
Min(S) == CHOOSE x \in S : \A y \in S : x <= y
Max(S) == CHOOSE x \in S : \A y \in S : x >= y

\* s[i:].startswith(p), 1-based i
StartsWithAt(s, i, p) ==
    /\ i + Len(p) - 1 <= Len(s)
    /\ \A k \in 1..Len(p) : s[i + k - 1] = p[k]

Occurrences(s, p) == {i \in 1..(Len(s) + 1) : StartsWithAt(s, i, p)}

\* str.rfind, 1-based, 0 when absent
FindLast(s, p) == IF Occurrences(s, p) = {} THEN 0 ELSE Max(Occurrences(s, p))

\* str.find, 1-based, 0 when absent
Find(s, p) == IF Occurrences(s, p) = {} THEN 0 ELSE Min(Occurrences(s, p))

\* str.replace(old, new, 1), old non-empty
ReplaceFirst(s, old, new) ==
    LET i == Find(s, old)
    IN  IF i = 0 THEN s
        ELSE SubSeq(s, 1, i - 1) \o new \o SubSeq(s, i + Len(old), Len(s))

\* str.replace(old, new): every non-overlapping occurrence, left to right
RECURSIVE ReplaceFrom(_, _, _, _)
ReplaceFrom(s, i, old, new) ==
    IF i > Len(s) THEN <<>>
    ELSE IF StartsWithAt(s, i, old)
         THEN new \o ReplaceFrom(s, i + Len(old), old, new)
         ELSE <<s[i]>> \o ReplaceFrom(s, i + 1, old, new)

Replace(s, old, new) == ReplaceFrom(s, 1, old, new)

Count(s, c) == Cardinality({i \in 1..Len(s) : s[i] = c})

\* ------------------------------------------------------------- STYLES
\* STYLES[k].offset; the regex of style k is offset stars, (.*?), offset stars
STYLES == <<[style |-> "BOLD", offset |-> 2], [style |-> "ITALIC", offset |-> 1]>>

Delim(offset) == [k \in 1..offset |-> "*"]

\* The regex of a style matches s[i..e]: both delimiters, and an inner part
\* in which "." matches anything but a line feed.
Matches(s, offset, i, e) ==
    /\ e - i + 1 >= 2 * offset
    /\ StartsWithAt(s, i, Delim(offset))
    /\ StartsWithAt(s, e - offset + 1, Delim(offset))
    /\ \A k \in (i + offset)..(e - offset) : s[k] # "\n"

\* re.search(regex, s): the leftmost start, and with (.*?) the shortest match
\* there; start = 0 stands for None
re_search(offset, s) ==
    LET starts == {i \in 1..Len(s) : \E e \in i..Len(s) : Matches(s, offset, i, e)}
    IN  IF starts = {} THEN [start |-> 0, end |-> 0]   \* None
        ELSE LET i == Min(starts)
             IN  [start |-> i, end |-> Min({e \in i..Len(s) : Matches(s, offset, i, e)})]

\* match.group()
Group(s, m) == SubSeq(s, m.start, m.end)

\* a faulty slice, group[offset:], that keeps the closing delimiter
InnerFrontOnly(group, offset) == SubSeq(group, offset + 1, Len(group))

\* group[offset:-offset]
Inner(group, offset) == SubSeq(group, offset + 1, Len(group) - offset)

\* a faulty replacement, of the last occurrence of the group instead of the first
ReplaceGroupLast(msg, group, offset) ==
    LET i == FindLast(msg, group)
    IN  SubSeq(msg, 1, i - 1) \o Inner(group, offset) \o SubSeq(msg, i + Len(group), Len(msg))

\* message.replace(group, group[offset:-offset], 1)
ReplaceGroup(msg, group, offset) == ReplaceFirst(msg, group, Inner(group, offset))

\* ------------------------------------------------------------- remove_markdown_styles
None == [start |-> 0, end |-> 0]

\* not called yet
MdInit ==
    /\ md_text = <<>>
    /\ message = <<>>
    /\ style = 0
    /\ match = None
    /\ iters = <<0, 0>>
    /\ prev = [message |-> <<>>, style |-> 0, match |-> None]

\* remove_markdown_styles(text): message = str(text), the for loop starts and
\* searches for the first style
MdCall ==
    /\ style = 0
    /\ \E t \in MdInputs :
          /\ md_text' = t
          /\ message' = t
    /\ style' = 1
    /\ match' = re_search(STYLES[1].offset, message')
    /\ UNCHANGED <<iters, prev, cl_vars, tts_vars>>

\* while match: the body runs once and searches again
MdReplace ==
    /\ style \in 1..2
    /\ match # None
    /\ message' = ReplaceGroup(message, Group(message, match), STYLES[style].offset)
    /\ match' = re_search(STYLES[style].offset, message')
    /\ iters' = [iters EXCEPT ![style] = @ + 1]
    /\ prev' = [message |-> message, style |-> style, match |-> match]
    /\ UNCHANGED <<md_text, style, cl_vars, tts_vars>>

\* while match: no match; the for loop moves on to the next style and
\* searches for it, or the function returns
MdNextStyle ==
    /\ style \in 1..2
    /\ match = None
    /\ style' = style + 1
    /\ match' = IF style' <= Len(STYLES)
                 THEN re_search(STYLES[style'].offset, message)
                 ELSE None
    /\ UNCHANGED <<md_text, message, iters, prev, cl_vars, tts_vars>>

MdDone == style = 3

\* the whole function: each style run to exhaustion, in the order of STYLES
RECURSIVE StripStyle(_, _)
StripStyle(msg, offset) ==
    LET m == re_search(offset, msg)
    IN  IF m = None THEN msg
        ELSE StripStyle(ReplaceGroup(msg, Group(msg, m), offset), offset)

remove_markdown_styles(text) ==
    StripStyle(StripStyle(text, STYLES[1].offset), STYLES[2].offset)

\* ------------------------------------------------------------- clean_text_for_tts
\* str.splitlines(): a line ends at "\r\n", "\n" or "\r"; no empty last line
RECURSIVE SplitFrom(_, _, _)
SplitFrom(s, i, cur) ==
    IF i > Len(s) THEN (IF cur = <<>> THEN <<>> ELSE <<cur>>)
    ELSE IF s[i] = "\r" /\ i < Len(s) /\ s[i + 1] = "\n"
         THEN <<cur>> \o SplitFrom(s, i + 2, <<>>)
    ELSE IF s[i] \in {"\n", "\r"}
         THEN <<cur>> \o SplitFrom(s, i + 1, <<>>)
    ELSE SplitFrom(s, i + 1, Append(cur, s[i]))

splitlines(s) == SplitFrom(s, 1, <<>>)

\* os.linesep of the platform the server runs on
linesep == <<"\n">>

\* sep.join(parts)
RECURSIVE JoinFrom(_, _, _)
JoinFrom(parts, k, sep) ==
    IF k > Len(parts) THEN <<>>
    ELSE IF k = Len(parts) THEN parts[k]
    ELSE parts[k] \o sep \o JoinFrom(parts, k + 1, sep)

Join(parts, sep) == JoinFrom(parts, 1, sep)

\* [s for s in lines if s]
NonEmpty(lines) == SelectSeq(lines, LAMBDA l : l # <<>>)

\* os.linesep.join([s for s in text.splitlines() if s])
DropBlankLines(text) == Join(NonEmpty(splitlines(text)), linesep)

\* demoji.replace(text, "")
demoji_replace(text) == Replace(text, <<"emoji">>, <<>>)

\* str.strip()
Whitespace == {" ", "\n", "\r"}

strip(s) ==
    LET kept == {i \in 1..Len(s) : s[i] \notin Whitespace}
    IN  IF kept = {} THEN <<>> ELSE SubSeq(s, Min(kept), Max(kept))

\* re.sub(" +", " ", s)
RECURSIVE CollapseFrom(_, _)
CollapseFrom(s, i) ==
    IF i > Len(s) THEN <<>>
    ELSE IF s[i] = " " /\ i > 1 /\ s[i - 1] = " " THEN CollapseFrom(s, i + 1)
    ELSE <<s[i]>> \o CollapseFrom(s, i + 1)

CollapseSpaces(s) == CollapseFrom(s, 1)

Percent == <<" ", "p", "e", "r", "c", "e", "n", "t">>
Fahrenheit == <<"deg", " ", "F", "a", "h", "r", "e", "n", "h", "e", "i", "t">>
Celsius == <<"deg", " ", "C", "e", "l", "s", "i", "u", "s">>
Kelvin == <<"deg", " ", "K", "e", "l", "v", "i", "n">>

\* a faulty cleaner that leaves asterisks alone
StarToDashSkipped(text) == text

\* text.replace("*", "-")
StarToDash(text) == Replace(text, <<"*">>, <<"-">>)

clean_text_for_tts(text) ==
    LET t1 == DropBlankLines(text)
        t2 == demoji_replace(t1)
        t3 == remove_markdown_styles(t2)
        t4 == Replace(t3, <<"%">>, Percent)
        t5 == StarToDash(t4)
        t6 == Replace(t5, <<" ", " ", "+">>, <<" ", " ", "-">>)
        t7 == strip(Replace(t6, <<"\r">>, <<>>))
        t8 == CollapseSpaces(t7)
        t9 == Replace(t8, <<"deg", "F">>, Fahrenheit)
        t10 == Replace(t9, <<"deg", "C">>, Celsius)
    IN  Replace(t10, <<"deg", "K">>, Kelvin)

MdIdle ==
    /\ md_text = <<>>
    /\ message = <<>>
    /\ style = 3
    /\ match = None
    /\ iters = <<0, 0>>
    /\ prev = [message |-> <<>>, style |-> 0, match |-> None]

\* this part is not running
ClIdle ==
    /\ cl_text = <<>>
    /\ cl_pc = "off"
    /\ cl_out = <<>>
    /\ cl_out2 = <<>>

ClInit ==
    /\ cl_text = <<>>
    /\ cl_pc = "idle"
    /\ cl_out = <<>>
    /\ cl_out2 = <<>>

\* clean_text_for_tts(text) on a text of the caller's
ClCall ==
    /\ cl_pc = "idle"
    /\ \E t \in CleanInputs(MaxCleanLen, MaxLinesLen) :
          /\ cl_text' = t
          /\ cl_out' = clean_text_for_tts(t)
    /\ cl_pc' = "once"
    /\ UNCHANGED <<cl_out2, md_vars, tts_vars>>

\* clean_text_for_tts on the text the first call returned
ClAgain ==
    /\ cl_pc = "once"
    /\ cl_out2' = clean_text_for_tts(cl_out)
    /\ cl_pc' = "twice"
    /\ UNCHANGED <<cl_text, cl_out, md_vars, tts_vars>>

\* ------------------------------------------------------------- POST /tts
\* two handler runs that overlap at their await points
Reqs == {1, 2}
\* the names tempfile can give a file
Paths == 1..NumPaths

\* a form field: absent (the default None) or given with a value
Absent(v) == [given |-> FALSE, v |-> v]
Given(v) == [given |-> TRUE, v |-> v]

TextArgs == {Absent(<<>>), Given(<<>>), Given(<<" ">>), Given(<<"*", "a", "*">>)}
SpeakerArgs == {Absent(0), Given(0), Given(1)}
SpeedArgs == {1, 2}

NoReq == [text |-> Absent(<<>>), speaker_id |-> Absent(0), speed |-> 1, compress |-> TRUE]

NoData == [kind |-> "none"]
EmptyData == [kind |-> "empty"]
NoFile == [owner |-> 0, data |-> NoData]
NoResult == [status |-> 0, detail |-> "", media_type |-> "", content |-> NoData]

\* a faulty test, `speaker_id is None`, that lets 0 through
NotSpeakerNoneOnly(a) == ~ a.given

\* `not text`, `not speaker_id`
NotText(a) == ~ a.given \/ a.v = <<>>
NotSpeaker(a) == ~ a.given \/ a.v = 0

HTTPException(detail) ==
    [status |-> 400, detail |-> detail, media_type |-> "", content |-> NoData]

\* an exception the handler does not catch: the server answers 500
Raised == [status |-> 500, detail |-> "", media_type |-> "", content |-> NoData]

\* a faulty response that says audio/flac whatever it carries
ResponseFlacAlways(c, media_type) ==
    [status |-> 200, detail |-> "", media_type |-> "audio/flac", content |-> c]

\* Response(content=content, media_type=...)
Response(c, media_type) ==
    [status |-> 200, detail |-> "", media_type |-> media_type, content |-> c]

\* tts_client.tts_to_file: the audio is some function of what it is called with
tts_to_file(text, speaker, speed) ==
    [kind |-> "wav", text |-> text, speaker |-> speaker, speed |-> speed]

\* f"p{speaker_id}"
SpeakerLabel(speaker_id) == <<"p", speaker_id>>

\* what the synthesis call of lines 107-112 writes for a request
Synthesized(q) ==
    tts_to_file(clean_text_for_tts(q.text.v), SpeakerLabel(q.speaker_id.v), q.speed)

\* pyflac.FileEncoder: the FLAC encoding of the input file's audio
Encoded(wav) == [kind |-> "flac", of |-> wav]

\* a faulty naming that may give a name a file already has
AnyName(f) == Paths

\* tempfile.NamedTemporaryFile(delete=False): a name no file has yet
NewTempNames(f) == {p \in Paths : f[p] = NoFile}

CreateTemp(f, p, r) == [f EXCEPT ![p] = [owner |-> r, data |-> EmptyData]]
WriteFile(f, p, d) == [f EXCEPT ![p].data = d]
\* os.remove
Remove(f, p) == [f EXCEPT ![p] = NoFile]

TtsInit ==
    /\ req = [r \in Reqs |-> NoReq]
    /\ pc = [r \in Reqs |-> "idle"]
    /\ fs = [p \in Paths |-> NoFile]
    /\ wav_path = [r \in Reqs |-> 0]
    /\ flac_path = [r \in Reqs |-> 0]
    /\ content = [r \in Reqs |-> NoData]
    /\ result = [r \in Reqs |-> NoResult]
    /\ log = [r \in Reqs |-> <<>>]
    /\ touched = [r \in Reqs |-> {}]

\* this part is not running
TtsIdle ==
    /\ req = <<>>
    /\ pc = <<>>
    /\ fs = <<>>
    /\ wav_path = <<>>
    /\ flac_path = <<>>
    /\ content = <<>>
    /\ result = <<>>
    /\ log = <<>>
    /\ touched = <<>>

\* the handler run ends with a response or a failure; its locals are gone
Finish(r, res) ==
    /\ result' = [result EXCEPT ![r] = res]
    /\ pc' = [pc EXCEPT ![r] = "done"]
    /\ wav_path' = [wav_path EXCEPT ![r] = 0]
    /\ flac_path' = [flac_path EXCEPT ![r] = 0]
    /\ content' = [content EXCEPT ![r] = NoData]

Logged(r, calls) == log' = [log EXCEPT ![r] = @ \o calls]

Valid(q) == ~ NotText(q.text) /\ ~ NotSpeaker(q.speaker_id)

\* the form fields a POST /tts can carry
Requests ==
    [text : TextArgs, speaker_id : SpeakerArgs, speed : SpeedArgs, compress : BOOLEAN]

\* FastAPI calls the handler with the form fields of a request
Called(r, q) ==
    /\ pc[r] = "idle"
    /\ req' = [req EXCEPT ![r] = q]

\* lines 90-94: `not text`
tts_text_required(r) ==
    \E q \in Requests :
        /\ Called(r, q)
        /\ NotText(q.text)
        /\ Finish(r, HTTPException("Text to convert into speech must be provided."))
        /\ UNCHANGED <<fs, log, touched>>
        /\ UNCHANGED <<md_vars, cl_vars>>

\* lines 90-100: `not speaker_id`
tts_speaker_required(r) ==
    \E q \in Requests :
        /\ Called(r, q)
        /\ ~ NotText(q.text)
        /\ NotSpeaker(q.speaker_id)
        /\ Finish(r, HTTPException("Speaker ID must be provided."))
        /\ UNCHANGED <<fs, log, touched>>
        /\ UNCHANGED <<md_vars, cl_vars>>

\* lines 90-103, and NamedTemporaryFile raises: no file was made
tts_wav_tempfile_raises(r) ==
    \E q \in Requests :
        /\ Called(r, q)
        /\ Valid(q)
        /\ Logged(r, <<"NamedTemporaryFile">>)
        /\ Finish(r, Raised)
        /\ UNCHANGED <<fs, touched>>
        /\ UNCHANGED <<md_vars, cl_vars>>

\* lines 90-112, and tts_to_file raises
tts_synthesis_raises(r) ==
    \E q \in Requests :
        /\ Called(r, q)
        /\ Valid(q)
        /\ \E wp \in NewTempNames(fs) : fs' = CreateTemp(fs, wp, r)
        /\ Logged(r, <<"NamedTemporaryFile", "tts_to_file">>)
        /\ Finish(r, Raised)
        /\ UNCHANGED touched
        /\ UNCHANGED <<md_vars, cl_vars>>

\* lines 90-114 and 131 with compress false, up to the await of aiofiles.open
tts_stage_wav(r) ==
    \E q \in Requests :
        /\ Called(r, q)
        /\ Valid(q)
        /\ ~ q.compress
        /\ \E wp \in NewTempNames(fs) :
              /\ fs' = WriteFile(CreateTemp(fs, wp, r), wp, Synthesized(q))
              /\ wav_path' = [wav_path EXCEPT ![r] = wp]
        /\ Logged(r, <<"NamedTemporaryFile", "tts_to_file">>)
        /\ pc' = [pc EXCEPT ![r] = "open"]
        /\ UNCHANGED <<flac_path, content, result, touched>>
        /\ UNCHANGED <<md_vars, cl_vars>>

\* lines 90-115 with compress true, and the second NamedTemporaryFile raises
tts_flac_tempfile_raises(r) ==
    \E q \in Requests :
        /\ Called(r, q)
        /\ Valid(q)
        /\ q.compress
        /\ \E wp \in NewTempNames(fs) :
              fs' = WriteFile(CreateTemp(fs, wp, r), wp, Synthesized(q))
        /\ Logged(r, <<"NamedTemporaryFile", "tts_to_file", "NamedTemporaryFile">>)
        /\ Finish(r, Raised)
        /\ UNCHANGED touched
        /\ UNCHANGED <<md_vars, cl_vars>>

\* lines 90-121 with compress true, and encoder.process() raises, or it
\* writes the FLAC file and encoder.finish() raises
tts_encoder_raises(r) ==
    \E q \in Requests :
        /\ Called(r, q)
        /\ Valid(q)
        /\ q.compress
        /\ \E wp \in NewTempNames(fs) :
              LET fs1 == WriteFile(CreateTemp(fs, wp, r), wp, Synthesized(q))
              IN  \E fp \in NewTempNames(fs1) :
                     \/ /\ fs' = CreateTemp(fs1, fp, r)
                        /\ Logged(r, <<"NamedTemporaryFile", "tts_to_file",
                                       "NamedTemporaryFile", "process">>)
                     \/ /\ fs' = WriteFile(CreateTemp(fs1, fp, r), fp, Encoded(fs1[wp].data))
                        /\ Logged(r, <<"NamedTemporaryFile", "tts_to_file",
                                       "NamedTemporaryFile", "process", "finish">>)
        /\ Finish(r, Raised)
        /\ UNCHANGED touched
        /\ UNCHANGED <<md_vars, cl_vars>>

\* lines 90-123 with compress true, up to the await of aiofiles.open
tts_stage_flac(r) ==
    \E q \in Requests :
        /\ Called(r, q)
        /\ Valid(q)
        /\ q.compress
        /\ \E wp \in NewTempNames(fs) :
              LET fs1 == WriteFile(CreateTemp(fs, wp, r), wp, Synthesized(q))
              IN  \E fp \in NewTempNames(fs1) :
                     /\ wav_path' = [wav_path EXCEPT ![r] = wp]
                     /\ flac_path' = [flac_path EXCEPT ![r] = fp]
                     /\ fs' = WriteFile(CreateTemp(fs1, fp, r), fp, Encoded(fs1[wp].data))
        /\ Logged(r, <<"NamedTemporaryFile", "tts_to_file",
                       "NamedTemporaryFile", "process", "finish">>)
        /\ pc' = [pc EXCEPT ![r] = "open"]
        /\ UNCHANGED <<content, result, touched>>
        /\ UNCHANGED <<md_vars, cl_vars>>

\* the file the handler opens and reads: lines 123 and 131
ReadPath(r) == IF req[r].compress THEN flac_path[r] ELSE wav_path[r]

\* await aiofiles.open(...) raises, also when the file is not there
tts_open_raises(r) ==
    /\ pc[r] = "open"
    /\ Logged(r, <<"open">>)
    /\ Finish(r, Raised)
    /\ UNCHANGED <<req, fs, touched>>
    /\ UNCHANGED <<md_vars, cl_vars>>

\* await aiofiles.open(...) returns the open file
tts_opened(r) ==
    /\ pc[r] = "open"
    /\ fs[ReadPath(r)] # NoFile
    /\ Logged(r, <<"open">>)
    /\ pc' = [pc EXCEPT ![r] = "read"]
    /\ UNCHANGED <<req, fs, wav_path, flac_path, content, result, touched>>
    /\ UNCHANGED <<md_vars, cl_vars>>

\* await read() raises: the async with closes the file and the exception
\* leaves the handler
tts_read_raises(r) ==
    /\ pc[r] = "read"
    /\ Logged(r, <<"read", "close">>)
    /\ Finish(r, Raised)
    /\ UNCHANGED <<req, fs, touched>>
    /\ UNCHANGED <<md_vars, cl_vars>>

\* content = await read(): the bytes of the file at the path
tts_read(r) ==
    /\ pc[r] = "read"
    /\ content' = [content EXCEPT ![r] = fs[ReadPath(r)].data]
    /\ touched' = [touched EXCEPT ![r] = @ \cup {fs[ReadPath(r)].owner}]
    /\ Logged(r, <<"read">>)
    /\ pc' = [pc EXCEPT ![r] = "close"]
    /\ UNCHANGED <<req, fs, wav_path, flac_path, result>>
    /\ UNCHANGED <<md_vars, cl_vars>>

\* the async with has closed the file: lines 126-128 or 134-135. os.remove
\* raises for a file that is not there.
tts_respond(r) ==
    /\ pc[r] = "close"
    /\ LET wp == wav_path[r]
           fp == flac_path[r]
           fs1 == Remove(fs, wp)
       IN  IF fs[wp] = NoFile
           THEN /\ fs' = fs
                /\ touched' = touched
                /\ Logged(r, <<"close", "remove">>)
                /\ Finish(r, Raised)
           ELSE IF ~ req[r].compress
           THEN /\ fs' = fs1
                /\ touched' = [touched EXCEPT ![r] = @ \cup {fs[wp].owner}]
                /\ Logged(r, <<"close", "remove">>)
                /\ Finish(r, Response(content[r], "audio/wav"))
           ELSE IF fs1[fp] = NoFile
           THEN /\ fs' = fs1
                /\ touched' = [touched EXCEPT ![r] = @ \cup {fs[wp].owner}]
                /\ Logged(r, <<"close", "remove", "remove">>)
                /\ Finish(r, Raised)
           ELSE /\ fs' = Remove(fs1, fp)
                /\ touched' = [touched EXCEPT ![r] = @ \cup {fs[wp].owner, fs1[fp].owner}]
                /\ Logged(r, <<"close", "remove", "remove">>)
                /\ Finish(r, Response(content[r], "audio/flac"))
    /\ UNCHANGED req
    /\ UNCHANGED <<md_vars, cl_vars>>

Init == TtsInit /\ MdIdle /\ ClIdle

Next ==
    \E r \in Reqs :
        \/ tts_text_required(r)
        \/ tts_speaker_required(r)
        \/ tts_wav_tempfile_raises(r)
        \/ tts_synthesis_raises(r)
        \/ tts_stage_wav(r)
        \/ tts_flac_tempfile_raises(r)
        \/ tts_encoder_raises(r)
        \/ tts_stage_flac(r)
        \/ tts_open_raises(r)
        \/ tts_opened(r)
        \/ tts_read_raises(r)
        \/ tts_read(r)
        \/ tts_respond(r)

Spec == Init /\ [][Next]_vars

InitClean == ClInit /\ MdIdle /\ TtsIdle

NextClean == ClCall

NextCleanTwice == ClCall \/ ClAgain

\* clean_text_for_tts applied to a text
SpecClean == InitClean /\ [][NextClean]_vars

\* clean_text_for_tts applied to a text and then to what it returned
SpecCleanTwice == InitClean /\ [][NextCleanTwice]_vars

NextMd == MdCall \/ MdReplace \/ MdNextStyle

InitMd == MdInit /\ ClIdle /\ TtsIdle

SpecMd == InitMd /\ [][NextMd]_vars

\* the function runs on: a sequential loop always takes its next step
FairSpecMd == SpecMd /\ WF_vars(NextMd)

\* ------------------------------------------------------------- claims on remove_markdown_styles
\* s[i..e] is the leftmost match of the style in s and the shortest one there
LeftmostShortest(s, offset, i, e) ==
    /\ Matches(s, offset, i, e)
    /\ \A i2 \in 1..Len(s), e2 \in 1..Len(s) :
          Matches(s, offset, i2, e2) => (i2 > i \/ (i2 = i /\ e2 >= e))

\* C9: every iteration of the while body rewrites the span re.search found,
\* the leftmost and shortest match of the running style: what
\* str.replace(group, inner, 1) produces is the message with exactly the two
\* delimiters of that span removed and every character outside it unchanged;
\* and no bold match is left when the italic style is first searched for.
C9_ReplacesMatchedSpan ==
    /\ prev.style # 0 =>
          LET d == STYLES[prev.style].offset
              p == prev.message
              m == prev.match
          IN  /\ LeftmostShortest(p, d, m.start, m.end)
              /\ message = SubSeq(p, 1, m.start - 1)
                              \o SubSeq(p, m.start + d, m.end - d)
                              \o SubSeq(p, m.end + 1, Len(p))
              /\ Len(message) = Len(p) - 2 * d
    /\ (style >= 2 /\ iters[2] = 0) =>
          ~ \E i \in 1..Len(message), e \in 1..Len(message) : Matches(message, 2, i, e)

\* an iteration ran whose matched text also occurs further right in the message
C9_Witness ==
    /\ prev.style # 0
    /\ Cardinality(Occurrences(prev.message, Group(prev.message, prev.match))) >= 2
    /\ prev.match.start > 1

\* C10: the loop terminates on every input: every bold iteration shortens the
\* message by 4 characters and every italic one by 2, the iterations number at
\* most half the asterisks of the input, and the function returns.
C10_Terminates ==
    /\ [](/\ Len(message) + 4 * iters[1] + 2 * iters[2] = Len(md_text)
          /\ 2 * (iters[1] + iters[2]) <= Count(md_text, "*"))
    /\ <>MdDone

\* returned after bold and italic iterations on an input of unbalanced
\* asterisks, some of them left over
C10_Witness ==
    /\ MdDone
    /\ iters[1] >= 1
    /\ iters[2] >= 1
    /\ Count(message, "*") >= 1
    /\ Count(md_text, "*") % 2 = 1

\* ------------------------------------------------------------- claims on clean_text_for_tts
\* C5: clean_text_for_tts is idempotent: cleaning its own output changes nothing.
C5_Idempotent == cl_pc = "twice" => cl_out2 = cl_out

\* C6: the output of clean_text_for_tts holds no asterisk, hence no match of
\* the bold or of the italic pattern.
C6_NoAsterisk ==
    cl_pc # "idle" =>
        /\ Count(cl_out, "*") = 0
        /\ \A k \in 1..Len(STYLES) : re_search(STYLES[k].offset, cl_out) = None

\* cleaned a text whose asterisks were not all markdown delimiters: one of
\* them came out as "-"
C6_Witness ==
    /\ cl_pc = "once"
    /\ Count(cl_text, "*") % 2 = 1
    /\ Count(cl_out, "-") >= 1

\* C7: the output of clean_text_for_tts holds no blank line: no two line
\* separators in a row.
C7_NoBlankLine ==
    cl_pc # "idle" =>
        \A i \in 1..(Len(cl_out) - 1) : ~ (cl_out[i] = "\n" /\ cl_out[i + 1] = "\n")

\* ------------------------------------------------------------- claims on POST /tts
Calls(r) == {log[r][i] : i \in 1..Len(log[r])}
OwnedFiles(r) == {p \in Paths : fs[p].owner = r}

\* C1: when a handler run has returned a response or propagated a failure,
\* every temporary file it created has been deleted.
C1_TempFilesDeleted ==
    \A r \in Reqs : pc[r] = "done" => OwnedFiles(r) = {}

\* C2: a request whose text is missing or empty is rejected with 400 for the
\* text; otherwise one whose speaker_id is missing or 0 is rejected with 400
\* for the speaker id; a rejected run has created no file and has called
\* neither the synthesis nor the encoder.
C2_Rejects ==
    \A r \in Reqs :
        LET q == req[r]
            noText == ~ q.text.given \/ Len(q.text.v) = 0
            noSpeaker == ~ q.speaker_id.given \/ q.speaker_id.v = 0
        IN  pc[r] # "idle" =>
               /\ noText =>
                     /\ pc[r] = "done"
                     /\ result[r].status = 400
                     /\ result[r].detail = "Text to convert into speech must be provided."
               /\ (~ noText /\ noSpeaker) =>
                     /\ pc[r] = "done"
                     /\ result[r].status = 400
                     /\ result[r].detail = "Speaker ID must be provided."
               /\ (noText \/ noSpeaker) =>
                     /\ log[r] = <<>>
                     /\ OwnedFiles(r) = {}

\* a request with a text and speaker_id 0 was rejected while the other
\* request had its files staged
C2_Witness ==
    \E r \in Reqs, o \in Reqs :
        /\ pc[r] = "done"
        /\ req[r].text = Given(<<"*", "a", "*">>)
        /\ req[r].speaker_id = Given(0)
        /\ result[r].status = 400
        /\ pc[o] = "read"

\* C3: a request for which the synthesis is called has a text that is not
\* empty after trimming its whitespace.
C3_SynthesizedTextNotBlank ==
    \A r \in Reqs : "tts_to_file" \in Calls(r) => strip(req[r].text.v) # <<>>

\* C4: a response with audio has media type audio/flac and the encoder's
\* output as its body exactly when compress is true, and audio/wav and the
\* synthesis output when compress is false; the encoder is called only when
\* compress is true and only after the synthesis call.
C4_MediaTypeAndBody ==
    \A r \in Reqs :
        /\ (pc[r] = "done" /\ result[r].status = 200) =>
              IF req[r].compress
              THEN /\ result[r].media_type = "audio/flac"
                   /\ result[r].content = Encoded(Synthesized(req[r]))
              ELSE /\ result[r].media_type = "audio/wav"
                   /\ result[r].content = Synthesized(req[r])
        /\ \A i \in 1..Len(log[r]) :
              log[r][i] \in {"process", "finish"} =>
                  /\ req[r].compress
                  /\ \E j \in 1..(i - 1) : log[r][j] = "tts_to_file"

\* one request was answered with FLAC and the other with WAV
C4_Witness ==
    \E r \in Reqs, o \in Reqs :
        /\ pc[r] = "done" /\ result[r].status = 200 /\ req[r].compress
        /\ pc[o] = "done" /\ result[o].status = 200 /\ ~ req[o].compress

\* what a request's own fields make the handler return
OwnAudio(q) == IF q.compress THEN Encoded(Synthesized(q)) ELSE Synthesized(q)

\* C8: under every interleaving of two handler runs at their await points,
\* each run reads and removes only files it created itself, and the bytes it
\* read and returns are those made from its own text, speaker_id and speed.
C8_RequestsIndependent ==
    \A r \in Reqs :
        /\ touched[r] \subseteq {r}
        /\ pc[r] = "close" => content[r] = OwnAudio(req[r])
        /\ (pc[r] = "done" /\ result[r].status = 200) =>
              result[r].content = OwnAudio(req[r])

\* the two runs overlapped: both have staged and read their files, for
\* different texts, and neither has removed them yet
C8_Witness ==
    /\ \A r \in Reqs : pc[r] = "close"
    /\ req[1].text # req[2].text
    /\ req[1].compress /\ req[2].compress

====
